---- MODULE Spec2Model ----
(***************************************************************************)
(* Model of the concurrent enrichment pipeline of src/enrich_data.py:      *)
(* EfficientRateLimiter (the rate governor), analyze_content (the response *)
(* interpreter), load_enriched_data (the checkpoint store) and             *)
(* _process_items / process_mineral (the enrichment engine).               *)
(*                                                                         *)
(* Units.  Times are integers counting tenths of a second, so the 60 s     *)
(* window is 600 and the 0.1 s pad is 1.  A limit "configured * 0.9" is    *)
(* kept as the integer configured * 9, ten times the float the code        *)
(* stores, and every comparison against it multiplies the other side by    *)
(* ten.                                                                    *)
(***************************************************************************)
EXTENDS Integers, Sequences, FiniteSets, TLC

(***************************************************************************)
(* Bounds of the model.                                                    *)
(***************************************************************************)
NumWorkers == 2
MaxTime == 1300
MaxRetries == 3
NumItems == 2
MaxRuns == 2
MaxLines == 3
NumMinerals == 3
NumPosts == 6

(***************************************************************************)
(* Program constants.                                                      *)
(***************************************************************************)
Window == 600
SafetyPad == 1
SafetyTenths == 9
Tenths == 10
DefaultRpm == 800
DefaultTpm == 900000
SaveEvery == 5

Workers == 1..NumWorkers

\* Inputs of the rate limiter specification: constructor arguments, the
\* estimated costs of the calls and the delays between two events.
RpmConfigs == {2, 3}
TpmConfigs == {10, 30}
TokenCosts == {4, 9}
TickSteps == {300}

VARIABLES
    rpm_limit,            \* EfficientRateLimiter.rpm_limit, times ten
    tpm_limit,            \* EfficientRateLimiter.tpm_limit, times ten
    request_timestamps,   \* EfficientRateLimiter.request_timestamps
    token_counts,         \* EfficientRateLimiter.token_counts
    lock,                 \* EfficientRateLimiter.lock: 0 free, else the holder
    now,                  \* time.time()
    admissions,           \* history: the times of the last three requests recorded
    pc,                   \* position of each worker thread
    estimated_tokens,     \* argument of each worker's wait_if_needed call
    wake,                 \* end of each worker's time.sleep
    ac_max_retries,       \* analyze_content: its max_retries argument
    ac_responses,         \* what generate_content does on attempt 1, 2, ...
    ac_out,               \* analyze_content: what the call returned and did
    disk,                 \* the .jsonl output log as it is on disk
    buffer,               \* what f_out.write has taken and not yet written out
    mpc,                  \* position of the main thread
    run,                  \* number of runs (processes) started so far
    enriched_items,       \* the dict load_enriched_data returned to this run
    stats,                \* ProcessingStats of this run
    queue,                \* work queue of the ThreadPoolExecutor
    task,                 \* the item each worker thread is processing, 0: none
    future,               \* state and result of each submitted future
    summary,              \* enrichment_summary.json as the current run wrote it
    called,               \* history: ids generate_content was called for in this run
    appended,             \* history: ids of the records f_out.write took in this run
    log_at_load,          \* history: the log as the current run found it
    ld_lines,             \* a log file given to load_enriched_data, line by line
    ld_out,               \* what load_enriched_data did with it
    minerals,             \* what process_mineral does for each mineral of data/
    handled,              \* what process_all_minerals has made of each one so far
    batch_pc,             \* process_all_minerals: in its loop or past it
    enriched_posts_path_json,   \* the file posts_enriched.json of an earlier version
    enriched_posts_path_jsonl,  \* the file posts_enriched.jsonl
    done_now,             \* history: the ids the latest run found already enriched
    done_before,          \* history: the ids the runs before it found already enriched
    fb_runs,              \* number of runs of process_mineral so far
    analysis_file,        \* relevence.py: the post ids in relevance_analysis.json
    analysis_results,     \* analyze_mineral_folder: the post ids in its dict
    remaining_posts,      \* analyze_mineral_folder: the posts of this run
    current_count,        \* analyze_mineral_folder: len(analyzed_post_ids)
    rv_i,                 \* analyze_mineral_folder: turns of the loop done
    rv_pc,                \* position of the relevance analysis
    rv_runs,              \* number of runs of the relevance analysis
    obtained              \* history: the posts a result was obtained for

rlVars == <<rpm_limit, tpm_limit, request_timestamps, token_counts, lock, now,
           admissions>>
thVars == <<pc, estimated_tokens, wake>>
acVars == <<ac_max_retries, ac_responses, ac_out>>
plVars == <<disk, buffer, mpc, run, enriched_items, stats, queue, task, future,
            summary, called, appended, log_at_load>>
ldVars == <<ld_lines, ld_out>>
btVars == <<minerals, handled, batch_pc>>
fbVars == <<enriched_posts_path_json, enriched_posts_path_jsonl, done_now, done_before,
            fb_runs>>
rvVars == <<analysis_file, analysis_results, remaining_posts, current_count, rv_i, rv_pc,
            rv_runs, obtained>>
vars == <<rlVars, thVars, acVars, plVars, ldVars, btVars, fbVars, rvVars>>

(***************************************************************************)
(* Helpers on sequences.                                                   *)
(***************************************************************************)
RECURSIVE SumTokens(_)
SumTokens(tcs) ==
    IF tcs = <<>> THEN 0 ELSE Head(tcs).tokens + SumTokens(Tail(tcs))

(***************************************************************************)
(* EfficientRateLimiter                                                    *)
(***************************************************************************)
\* __init__: the limits with the safety margin applied, both lists empty.
RateLimiterInit(rpm, tpm) ==
    /\ rpm_limit = rpm * SafetyTenths
    /\ tpm_limit = tpm * SafetyTenths
    /\ request_timestamps = <<>>
    /\ token_counts = <<>>
    /\ admissions = <<>>
    /\ lock = 0

\* wait_if_needed, lines 69-71: the two lists pruned to the trailing window.
one_minute_ago == now - Window
PrunedRequests == SelectSeq(request_timestamps, LAMBDA t: t > one_minute_ago)
PrunedTokens == SelectSeq(token_counts, LAMBDA tc: tc.timestamp > one_minute_ago)

\* Faulty variant: the count is compared with the token limit.
RpmComparedToTpm == Len(PrunedRequests) * Tenths >= tpm_limit

\* line 73: len(self.request_timestamps) >= self.rpm_limit
RpmExhausted == Len(PrunedRequests) * Tenths >= rpm_limit

\* lines 80-81: current_tpm + estimated_tokens >= self.tpm_limit
current_tpm == SumTokens(PrunedTokens)
\* Faulty variant: the cost of the new call is left out of the comparison.
TpmExhaustedWithoutNew(w) == current_tpm * Tenths >= tpm_limit

TokensExhausted(tokens) == (current_tpm + tokens) * Tenths >= tpm_limit

TpmExhausted(w) == TokensExhausted(estimated_tokens[w])

\* Faulty variant: the critical section is entered whoever holds the lock.
LockIgnored == TRUE

\* `with self.lock`: a worker enters the critical section when the lock is free.
LockFree == lock = 0

Acquire(w) ==
    /\ pc[w] = "wait_lock"
    /\ LockFree
    /\ lock' = w
    /\ pc' = [pc EXCEPT ![w] = "check"]
    /\ UNCHANGED <<rpm_limit, tpm_limit, admissions, request_timestamps, token_counts, now,
                   estimated_tokens, wake>>

\* lines 73-78: no request headroom; sleep, holding the lock, until the oldest
\* request leaves the window, then evaluate again.
SleepRpm(w) ==
    /\ pc[w] = "check"
    /\ RpmExhausted
    /\ PrunedRequests # <<>>
    /\ request_timestamps' = PrunedRequests
    /\ token_counts' = PrunedTokens
    /\ wake' = [wake EXCEPT ![w] = now + (Window - (now - PrunedRequests[1]) + SafetyPad)]
    /\ pc' = [pc EXCEPT ![w] = "sleeping"]
    /\ UNCHANGED <<rpm_limit, tpm_limit, admissions, lock, now, estimated_tokens>>

\* lines 80-86: no token headroom; sleep until the oldest token entry expires.
SleepTpm(w) ==
    /\ pc[w] = "check"
    /\ ~RpmExhausted
    /\ TpmExhausted(w)
    /\ PrunedTokens # <<>>
    /\ request_timestamps' = PrunedRequests
    /\ token_counts' = PrunedTokens
    /\ wake' = [wake EXCEPT ![w] = now + (Window - (now - PrunedTokens[1].timestamp) + SafetyPad)]
    /\ pc' = [pc EXCEPT ![w] = "sleeping"]
    /\ UNCHANGED <<rpm_limit, tpm_limit, admissions, lock, now, estimated_tokens>>

\* lines 74 and 82: indexing [0] of an empty list raises IndexError, which
\* leaves the with-block (the lock is released) and the call.
RaiseIndexError(w) ==
    /\ pc[w] = "check"
    /\ IF RpmExhausted THEN PrunedRequests = <<>>
       ELSE TpmExhausted(w) /\ PrunedTokens = <<>>
    /\ request_timestamps' = PrunedRequests
    /\ token_counts' = PrunedTokens
    /\ lock' = 0
    /\ pc' = [pc EXCEPT ![w] = "raised"]
    /\ UNCHANGED <<rpm_limit, tpm_limit, admissions, now, estimated_tokens, wake>>

\* The history of line 88: the new time joins the last two recorded ones.
Recorded(time) ==
    IF Len(admissions) < 3 THEN Append(admissions, time)
    ELSE <<admissions[2], admissions[3], time>>

\* lines 88-90: headroom on both budgets; record the request and leave.
HasHeadroom(w) == ~RpmExhausted /\ ~TpmExhausted(w)

Admit(w) ==
    /\ pc[w] = "check"
    /\ HasHeadroom(w)
    /\ request_timestamps' = Append(PrunedRequests, now)
    /\ token_counts' = Append(PrunedTokens,
                              [timestamp |-> now, tokens |-> estimated_tokens[w]])
    /\ admissions' = Recorded(now)
    /\ lock' = 0
    /\ pc' = [pc EXCEPT ![w] = "admitted"]
    /\ UNCHANGED <<rpm_limit, tpm_limit, now, estimated_tokens, wake>>

\* time.sleep(wait_time) returns: the clock is at the wake time or later.
Wake(w) ==
    /\ pc[w] = "sleeping"
    /\ now' = IF now < wake[w] THEN wake[w] ELSE now
    /\ now' <= MaxTime
    /\ pc' = [pc EXCEPT ![w] = "check"]
    /\ wake' = [wake EXCEPT ![w] = 0]
    /\ UNCHANGED <<rpm_limit, tpm_limit, admissions, request_timestamps, token_counts, lock,
                   estimated_tokens>>

\* Time passes.
Tick ==
    /\ \E d \in TickSteps:
         /\ now + d <= MaxTime
         /\ now' = now + d
    /\ UNCHANGED <<rpm_limit, tpm_limit, admissions, request_timestamps, token_counts, lock,
                   thVars>>

(***************************************************************************)
(* Analyses.  An analysis (a Python dict) is kept as the set of its        *)
(* top-level keys with the values the code reads or writes: keywords,      *)
(* themes and topic_classification.  NoAnalysis stands for "no dict".      *)
(***************************************************************************)
RequiredKeys ==
    {"sentiment", "keywords", "themes", "concerns_detected", "mining_stance",
     "topic_classification"}

\* __init__, lines 102-116
default_analysis ==
    [keys |-> RequiredKeys, keywords |-> <<>>, themes |-> <<>>,
     topic_classification |-> "neutral"]

NoAnalysis ==
    [keys |-> {}, keywords |-> <<>>, themes |-> <<>>, topic_classification |-> ""]

\* create_analysis_prompt, lines 165-180: the top-level keys of the object
\* the prompt tells the API to return; the last one is named after the
\* mineral.
PromptSchemaKeys ==
    {"sentiment", "keywords", "themes", "concerns_detected", "mining_stance",
     "topic_classification", "relevance_to_mineral_score"}

\* lines 194-199
create_blocked_analysis(reason) ==
    [default_analysis EXCEPT !.keywords = <<"content_issue", reason>>,
                             !.themes = <<"content_blocked">>,
                             !.topic_classification = "blocked"]

(***************************************************************************)
(* Response texts.  A text is a sequence of tokens: an opening brace, a    *)
(* closing brace, a run of prose, or a "key": value pair.                  *)
(***************************************************************************)
LB == [t |-> "{", k |-> "", v |-> ""]
RB == [t |-> "}", k |-> "", v |-> ""]
Prose == [t |-> "prose", k |-> "", v |-> ""]
KV(key, value) == [t |-> "kv", k |-> key, v |-> value]

Positions(text, tok) == {i \in 1..Len(text): text[i] = tok}
MinOf(S) == CHOOSE x \in S: \A y \in S: x <= y
MaxOf(S) == CHOOSE x \in S: \A y \in S: x >= y

\* lines 188-192: re.search(r'\{.*\}', text, re.DOTALL): from the first opening
\* brace to the last closing brace after it; <<>> stands for None.
extract_json_from_response(response_text) ==
    IF response_text = <<>> THEN <<>>
    ELSE LET opens == Positions(response_text, LB)
             closes == Positions(response_text, RB)
         IN IF opens = {} \/ closes = {} \/ MaxOf(closes) < MinOf(opens) THEN <<>>
            ELSE SubSeq(response_text, MinOf(opens), MaxOf(closes))

\* json.loads of an extracted text: the nesting depth after each token, -1
\* once the text has stopped being one JSON object (prose between the
\* braces, a pair outside the object, the object closed before the end).
RECURSIVE DepthAfter(_, _)
DepthAfter(json_text, i) ==
    IF i = 0 THEN 0
    ELSE LET d == DepthAfter(json_text, i - 1)
             tok == json_text[i]
         IN IF d = -1 \/ tok.t = "prose" THEN -1
            ELSE IF tok.t = "{" THEN (IF d = 0 /\ i > 1 THEN -1 ELSE d + 1)
            ELSE IF tok.t = "}"
                 THEN (IF d = 0 \/ (d = 1 /\ i < Len(json_text)) THEN -1 ELSE d - 1)
            ELSE (IF d = 0 THEN -1 ELSE d)

\* json.loads succeeds (no JSONDecodeError).
JsonParses(json_text) ==
    /\ Len(json_text) >= 2
    /\ DepthAfter(json_text, Len(json_text)) = 0

TopLevelPairs(json_text) ==
    {i \in 2..(Len(json_text) - 1):
        json_text[i].t = "kv" /\ DepthAfter(json_text, i - 1) = 1}

\* The value json.loads gives a key: that of its last pair.
ValueOf(json_text, key, default) ==
    LET at == {i \in TopLevelPairs(json_text): json_text[i].k = key}
    IN IF at = {} THEN default ELSE json_text[MaxOf(at)].v

json_loads(json_text) ==
    [keys |-> {json_text[i].k : i \in TopLevelPairs(json_text)},
     keywords |-> IF ValueOf(json_text, "keywords", "") = "" THEN <<>>
                  ELSE <<ValueOf(json_text, "keywords", "")>>,
     themes |-> IF ValueOf(json_text, "themes", "") = "" THEN <<>>
                ELSE <<ValueOf(json_text, "themes", "")>>,
     topic_classification |-> ValueOf(json_text, "topic_classification", "")]

(***************************************************************************)
(* What one generate_content call does: it raises an exception carrying an *)
(* error text (a sequence of words), or returns a response with or without *)
(* a candidate.                                                            *)
(***************************************************************************)
Raises(err) ==
    [kind |-> "raise", error |-> err, candidates |-> 0, block_reason |-> FALSE,
     finish_reason |-> "", text |-> <<>>]
NoCandidates(blocked) ==
    [kind |-> "response", error |-> <<>>, candidates |-> 0, block_reason |-> blocked,
     finish_reason |-> "", text |-> <<>>]
Candidate(finish, txt) ==
    [kind |-> "response", error |-> <<>>, candidates |-> 1, block_reason |-> FALSE,
     finish_reason |-> finish, text |-> txt]

\* str(e).lower(), word by word
LowerWord(word) ==
    CASE word = "Quota" -> "quota"
      [] word = "Rate" -> "rate"
      [] word = "Limit" -> "limit"
      [] word = "Internal" -> "internal"
      [] word = "exceeded" -> "exceeded"
      [] OTHER -> word
Lower(err) == [i \in 1..Len(err) |-> LowerWord(err[i])]

Contains(text, term) ==
    \E i \in 1..(Len(text) - Len(term) + 1):
        SubSeq(text, i, i + Len(term) - 1) = term

\* Faulty variant: the word "rate" alone is taken for the marker.
MentionsRate(err) == Contains(Lower(err), <<"rate">>) \/ Contains(Lower(err), <<"429">>)

\* line 248: any(term in error_str for term in ['429', 'quota', 'rate limit'])
RateLimitTerms == {<<"429">>, <<"quota">>, <<"rate", "limit">>}
IsRateLimitError(err) == \E term \in RateLimitTerms: Contains(Lower(err), term)

\* line 226: f"safety_blocked_{candidate.finish_reason.name.lower()}"
SafetyReason(finish) ==
    CASE finish = "SAFETY" -> "safety_blocked_safety"
      [] finish = "RECITATION" -> "safety_blocked_recitation"
      [] OTHER -> "safety_blocked_other"

RECURSIVE Pow2(_)
Pow2(n) == IF n = 0 THEN 1 ELSE 2 * Pow2(n - 1)
\* Faulty variant: max in place of min.
Larger(a, b) == IF a < b THEN b ELSE a
\* line 249: min(300, ...)
Min(a, b) == IF a < b THEN a ELSE b

\* The constants of analyze_content (seconds).
RetryPause == 5
ErrorBackoff == 10
RateBackoff == 60
RateBackoffCap == 300
DefaultMaxRetries == 3

\* What one pass through the loop body does.
Retry(pause) == [returns |-> FALSE, result |-> NoAnalysis, pause |-> pause]
Give(result) == [returns |-> TRUE, result |-> result, pause |-> 0]

\* Faulty variant of the test: it gives up one attempt early.
LastAttemptOneEarly(attempt, max_retries) == ~(attempt < max_retries - 2)

\* `if attempt < max_retries - 1: time.sleep(..); continue` and the return
\* of the placeholder that follows it.
LastAttempt(attempt, max_retries) == ~(attempt < max_retries - 1)

\* Faulty variant: the last attempt pauses and continues as well.
RetryAlways(attempt, max_retries, pause, reason) == Retry(pause)

\* lines 220-221, 231-232, 237-238, 243-244 and 254-255
RetryOrBlock(attempt, max_retries, pause, reason) ==
    IF LastAttempt(attempt, max_retries) THEN Give(create_blocked_analysis(reason))
    ELSE Retry(pause)

\* Faulty variant: any(...) in place of all(...).
HasAnyRequiredKey(result) == \E key \in default_analysis.keys: key \in result.keys

\* Faulty variant: the block reason is not looked at.
PromptBlockedNever(resp) == FALSE

\* line 216: hasattr(response, 'prompt_feedback') and
\* response.prompt_feedback.block_reason
PromptBlocked(resp) == resp.block_reason

\* Faulty variant: every finish reason is let through to the parser.
FinishAcceptedAlways(finish) == TRUE

\* line 224: candidate.finish_reason.name not in ["STOP", "MAX_TOKENS"]
FinishAccepted(finish) == finish \in {"STOP", "MAX_TOKENS"}

\* line 235: all(key in result for key in self.default_analysis.keys())
HasRequiredKeys(result) == \A key \in default_analysis.keys: key \in result.keys

\* lines 208-255: the body of the retry loop for one attempt
AttemptBody(resp, attempt, max_retries) ==
    IF resp.kind = "raise" THEN
        IF IsRateLimitError(resp.error)
        THEN Retry(Min(RateBackoffCap, RateBackoff * Pow2(attempt)))
        ELSE RetryOrBlock(attempt, max_retries, ErrorBackoff * Pow2(attempt), "api_error")
    ELSE IF resp.candidates = 0 THEN
        IF PromptBlocked(resp) THEN Give(create_blocked_analysis("prompt_blocked"))
        ELSE RetryOrBlock(attempt, max_retries, RetryPause, "no_candidates")
    ELSE IF ~FinishAccepted(resp.finish_reason) THEN
        Give(create_blocked_analysis(SafetyReason(resp.finish_reason)))
    ELSE LET json_text == extract_json_from_response(resp.text) IN
        IF json_text = <<>> THEN RetryOrBlock(attempt, max_retries, RetryPause, "no_json")
        ELSE IF ~JsonParses(json_text)
        THEN RetryOrBlock(attempt, max_retries, RetryPause, "json_error")
        ELSE IF ~HasRequiredKeys(json_loads(json_text))
        THEN RetryOrBlock(attempt, max_retries, RetryPause, "invalid_structure")
        ELSE Give(json_loads(json_text))

\* Faulty variant: nothing is returned after the loop (None).
ExhaustedAsNone == NoAnalysis

\* Faulty variant: the wrong reason code after the loop.
ExhaustedAsApiError == create_blocked_analysis("api_error")

\* line 257
ExhaustedResult == create_blocked_analysis("max_retries_exceeded")

\* lines 207-257: `for attempt in range(max_retries)`, then the placeholder
\* after the loop.  calls counts the generate_content calls, pauses lists
\* the time.sleep arguments.
RECURSIVE RetryLoop(_, _, _, _)
RetryLoop(responses, attempt, max_retries, pauses) ==
    IF attempt >= max_retries
    THEN [result |-> ExhaustedResult, calls |-> attempt, pauses |-> pauses]
    ELSE LET body == AttemptBody(responses[attempt + 1], attempt, max_retries)
         IN IF body.returns
            THEN [result |-> body.result, calls |-> attempt + 1, pauses |-> pauses]
            ELSE RetryLoop(responses, attempt + 1, max_retries,
                           Append(pauses, body.pause))

analyze_content(responses, max_retries) == RetryLoop(responses, 0, max_retries, <<>>)

(***************************************************************************)
(* analyze_content on its own: the retry budget and what generate_content  *)
(* does on each attempt are drawn at the start, one step runs the call.    *)
(***************************************************************************)
FullObject(topic) ==
    <<LB, KV("sentiment", "Positive"), KV("keywords", "lithium"),
      KV("themes", "supply"), KV("concerns_detected", ""),
      LB, KV("environment", "0.5"), RB,
      KV("mining_stance", "Neutral"), KV("topic_classification", topic), RB>>

ValidText == <<Prose>> \o FullObject("economic") \o <<Prose>>

\* The same object followed by prose that has a closing brace in it.
BraceInProseText == FullObject("economic") \o <<Prose, RB, Prose>>

MissingKeyText ==
    <<LB, KV("sentiment", "Positive"), KV("keywords", "lithium"),
      KV("themes", "supply"), KV("concerns_detected", ""), LB, RB,
      KV("mining_stance", "Neutral"), RB>>

Responses ==
    {Raises(<<"429", "Too", "Many">>), Raises(<<"Quota", "exceeded">>),
     Raises(<<"500", "Internal">>), Raises(<<"Rate", "exceeded">>),
     NoCandidates(TRUE), NoCandidates(FALSE),
     Candidate("SAFETY", <<>>), Candidate("RECITATION", ValidText),
     Candidate("STOP", <<Prose>>),
     Candidate("STOP", <<LB, Prose, RB>>),
     Candidate("STOP", MissingKeyText),
     Candidate("STOP", <<LB, RB>>),
     Candidate("STOP", ValidText),
     Candidate("STOP", BraceInProseText),
     Candidate("MAX_TOKENS", FullObject("blocked"))}

\* lines 144-148 and 202: len(prompt) // 4 + 600
PromptLens == {3600}
ExtraTokens == 600
estimate_tokens(len) == IF len = 0 THEN 0 ELSE len \div 4

NotReturned == [result |-> NoAnalysis, calls |-> 0, pauses |-> <<>>, returned |-> FALSE]

AnalyzeInit(budgets) ==
    /\ ac_max_retries \in budgets
    /\ ac_responses \in [1..ac_max_retries -> Responses]
    /\ ac_out = NotReturned

\* Longer budgets, on which every call of generate_content raises.
Exceptions == {resp \in Responses: resp.kind = "raise"}
AnalyzeInitRaising(budgets) ==
    /\ ac_max_retries \in budgets
    /\ ac_responses \in [1..ac_max_retries -> Exceptions]
    /\ ac_out = NotReturned

AnalyzeIdle ==
    /\ ac_max_retries = 0
    /\ ac_responses = <<>>
    /\ ac_out = NotReturned

\* One call of analyze_content on a limiter that has headroom: lines
\* 202-203 estimate the cost and pass wait_if_needed once, which records
\* one request; lines 205-257 then run the retry loop.
AnalyzeCall ==
    /\ ~ac_out.returned
    /\ LockFree
    /\ \E len \in PromptLens:
         LET tokens == estimate_tokens(len) + ExtraTokens
         IN /\ ~RpmExhausted
            /\ ~TokensExhausted(tokens)
            /\ request_timestamps' = Append(PrunedRequests, now)
            /\ token_counts' = Append(PrunedTokens, [timestamp |-> now, tokens |-> tokens])
            /\ admissions' = Recorded(now)
    /\ LET out == analyze_content(ac_responses, ac_max_retries)
       IN ac_out' = [result |-> out.result, calls |-> out.calls,
                     pauses |-> out.pauses, returned |-> TRUE]
    /\ UNCHANGED <<ac_max_retries, ac_responses, rpm_limit, tpm_limit, lock, now>>

(***************************************************************************)
(* The checkpoint store.  json.dumps(result) + '\n' is written as two       *)
(* chunks, the second of which ends with the newline; the buffered writer  *)
(* may put any prefix of the pending chunks on disk.                       *)
(***************************************************************************)
Chunk(h, item) == [half |-> h, id |-> item.id, analysis |-> item.analysis]

\* line 332: json.dumps(result_data, ensure_ascii=False) + '\n'
DumpLine(result_data) == <<Chunk(1, result_data), Chunk(2, result_data)>>

\* json.loads(line) gives a dict with an id: the line is one whole record.
LineParses(line) ==
    /\ Len(line) = 2
    /\ line[1].half = 1
    /\ line[2].half = 2
    /\ line[1].id = line[2].id
    /\ line[1].analysis = line[2].analysis

DictPut(d, key, value) ==
    [x \in (DOMAIN d) \cup {key} |-> IF x = key THEN value ELSE d[x]]

\* lines 266-279: one pass over the lines of the file; a line that does not
\* parse (also the unterminated last one) is skipped.
RECURSIVE LoadLines(_, _, _)
LoadLines(chunks, line, enriched_data) ==
    IF chunks = <<>> THEN enriched_data
    ELSE LET cur == Append(line, Head(chunks))
         IN IF Head(chunks).half = 2
            THEN LoadLines(Tail(chunks), <<>>,
                           IF LineParses(cur)
                           THEN DictPut(enriched_data, cur[1].id,
                                        [id |-> cur[1].id, analysis |-> cur[1].analysis])
                           ELSE enriched_data)
            ELSE LoadLines(Tail(chunks), cur, enriched_data)

EmptyDict == [x \in {} |-> NoAnalysis]

\* A whole line of the log that holds a JSON number and not an object, and
\* lines 272-273 on a file with such a line: json.loads succeeds and
\* `'id' in item` raises TypeError, which leaves load_enriched_data.
ScalarLine == [half |-> 2, id |-> 0, analysis |-> NoAnalysis]
LoadRaises(file) ==
    \E i \in 1..Len(file):
        file[i] = ScalarLine /\ (IF i = 1 THEN TRUE ELSE file[i - 1].half = 2)

\* Faulty variant: every line is skipped.
LoadsNothing(file) == EmptyDict

\* lines 260-279
load_enriched_data(file) == LoadLines(file, <<>>, EmptyDict)

(***************************************************************************)
(* load_enriched_data on a log that holds lines of any kind: a record (an  *)
(* object with an id), a blank line, a line that is not JSON, an object    *)
(* with no id, and a JSON value that is not an object (a number).          *)
(***************************************************************************)
RecordLine(id, tag) == [kind |-> "record", id |-> id, tag |-> tag]
OtherLine(kind) == [kind |-> kind, id |-> 0, tag |-> ""]
LogLines ==
    {RecordLine(1, "a"), RecordLine(1, "b"), RecordLine(2, "a"),
     OtherLine("blank"), OtherLine("not_json"), OtherLine("no_id"), OtherLine("number")}

NoRecords == [x \in {} |-> ""]

\* lines 268-278, the body of the loop for one line: strip and skip a blank
\* line; json.loads, whose JSONDecodeError is caught and logged; then
\* `'id' in item`, which raises TypeError when item is a number, and no
\* except clause catches it.
LoadLine(line, enriched_data) ==
    IF line.kind = "blank" \/ line.kind = "not_json" \/ line.kind = "no_id"
    THEN [raised |-> FALSE, data |-> enriched_data]
    ELSE IF line.kind = "number"
    THEN [raised |-> TRUE, data |-> enriched_data]
    ELSE [raised |-> FALSE, data |-> DictPut(enriched_data, line.id, line.tag)]

\* lines 265-279: the loop over the lines of the file.
RECURSIVE LoadFile(_, _)
LoadFile(lines, enriched_data) ==
    IF lines = <<>> THEN [raised |-> FALSE, data |-> enriched_data]
    ELSE LET step == LoadLine(Head(lines), enriched_data)
         IN IF step.raised THEN [raised |-> TRUE, data |-> NoRecords]
            ELSE LoadFile(Tail(lines), step.data)

NotLoaded == [done |-> FALSE, raised |-> FALSE, data |-> NoRecords]

LoaderInit ==
    /\ ld_lines \in UNION {[1..n -> LogLines]: n \in 0..MaxLines}
    /\ ld_out = NotLoaded

LoaderIdle ==
    /\ ld_lines = <<>>
    /\ ld_out = NotLoaded

\* One call of load_enriched_data on the file.
LoadCall ==
    /\ ~ld_out.done
    /\ LET out == LoadFile(ld_lines, NoRecords)
       IN ld_out' = [done |-> TRUE, raised |-> out.raised, data |-> out.data]
    /\ UNCHANGED ld_lines

(***************************************************************************)
(* process_all_minerals: the loop over the minerals of data/.  For each    *)
(* mineral the call of process_mineral returns, raises an exception, or is *)
(* cut by the operator's interrupt.                                        *)
(***************************************************************************)
Outcomes == {"returns", "raises", "interrupted"}

\* Faulty variant: any exception ends the loop.
OnlyReturnGoesOn(outcome) == outcome = "returns"

\* lines 448-453: break on KeyboardInterrupt, continue on any other exception
GoesOn(outcome) == outcome # "interrupted"

\* lines 445-453: one turn of the loop
ProcessMineral ==
    /\ batch_pc = "loop"
    /\ Len(handled) < Len(minerals)
    /\ LET outcome == minerals[Len(handled) + 1]
       IN /\ handled' = Append(handled, outcome)
          /\ batch_pc' = IF GoesOn(outcome) THEN "loop" ELSE "done"
    /\ UNCHANGED minerals

\* lines 436-439 and 455-456: no mineral is left
FinishBatch ==
    /\ batch_pc = "loop"
    /\ Len(handled) = Len(minerals)
    /\ batch_pc' = "done"
    /\ UNCHANGED <<minerals, handled>>

BatchInit ==
    /\ minerals \in UNION {[1..n -> Outcomes]: n \in 0..NumMinerals}
    /\ handled = <<>>
    /\ batch_pc = "loop"

BatchIdle ==
    /\ minerals = <<>>
    /\ handled = <<>>
    /\ batch_pc = "loop"

(***************************************************************************)
(* ProcessingStats                                                         *)
(***************************************************************************)
NewStats == [total_processed |-> 0, successful |-> 0, failed |-> 0, blocked |-> 0,
             skipped |-> 0]

\* Faulty variant: an item that failed is not counted as processed.
IncrementUncountedFailure(st, kind) ==
    [st EXCEPT !.total_processed = IF kind = "failed" THEN @ ELSE @ + 1,
               !.successful = IF kind = "successful" THEN @ + 1 ELSE @,
               !.failed = IF kind = "failed" THEN @ + 1 ELSE @,
               !.blocked = IF kind = "blocked" THEN @ + 1 ELSE @]

\* lines 39-44
increment(st, kind) ==
    [st EXCEPT !.total_processed = @ + 1,
               !.successful = IF kind = "successful" THEN @ + 1 ELSE @,
               !.failed = IF kind = "failed" THEN @ + 1 ELSE @,
               !.blocked = IF kind = "blocked" THEN @ + 1 ELSE @]

\* Faulty variant: the count is not added.
SkippedLeftOut(st, count) == st

\* lines 46-48
add_skipped(st, count) == [st EXCEPT !.skipped = @ + count]

\* Faulty variant: the blocked items are left out of the denominator.
SuccessRateOfAnswered(st) ==
    [num |-> st.successful * 100,
     den |-> IF st.successful + st.failed > 1 THEN st.successful + st.failed ELSE 1]

\* lines 50-53: (self.successful / max(total_attempted, 1)) * 100, kept as
\* the fraction num / den.
success_rate(st) ==
    LET total_attempted == st.successful + st.failed + st.blocked
    IN [num |-> st.successful * 100,
        den |-> IF total_attempted > 1 THEN total_attempted ELSE 1]

\* lines 411 and 417: f"{rate:.1f}", the rate in tenths rounded to the nearest.
OneDecimal(rate) == (2 * 10 * rate.num + rate.den) \div (2 * rate.den)

(***************************************************************************)
(* The enrichment engine: process_mineral and _process_items for one       *)
(* collection, run after run on the same output log.                       *)
(***************************************************************************)
\* The input collection: items with pairwise distinct ids.
all_items == [i \in 1..NumItems |-> i]
ItemIds == 1..NumItems

\* Faulty variant: the filter keeps every item.
KeepsAll(id) == TRUE

\* line 304: item['id'] not in enriched_items
NotEnriched(id) == id \notin DOMAIN enriched_items

\* Faulty variant: the enriched ids are not looked at.
UnfilteredItems == all_items

\* line 304
items_to_process == SelectSeq(all_items, NotEnriched)

NoFuture == [state |-> "none", result |-> NoAnalysis]

WorkersIdle ==
    /\ queue = <<>>
    /\ task = [w \in Workers |-> 0]
    /\ future = [id \in ItemIds |-> NoFuture]

NoSummary == [written |-> FALSE, total_enriched_in_file |-> 0, processed_this_run |-> 0,
              successful |-> 0, failed |-> 0, blocked |-> 0, skipped_this_run |-> 0,
              success_rate |-> 0]

\* A process starts (main, __init__) and process_mineral loads the log:
\* lines 95-99 and 350-386.
LoadEnriched ==
    /\ mpc \in {"start", "finished", "crashed"}
    /\ run < MaxRuns
    /\ ~LoadRaises(disk)
    /\ run' = run + 1
    /\ rpm_limit' = DefaultRpm * SafetyTenths
    /\ tpm_limit' = DefaultTpm * SafetyTenths
    /\ request_timestamps' = <<>>
    /\ token_counts' = <<>>
    /\ admissions' = <<>>
    /\ lock' = 0
    /\ enriched_items' = load_enriched_data(disk)
    /\ stats' = add_skipped(NewStats, Cardinality(DOMAIN load_enriched_data(disk)))
    /\ called' = {}
    /\ appended' = <<>>
    /\ log_at_load' = disk
    /\ summary' = NoSummary
    /\ mpc' = "loaded"
    /\ UNCHANGED <<now, thVars, disk, buffer, queue, task, future>>

\* A process starts and load_enriched_data raises at line 373: the exception
\* leaves process_mineral before anything is processed.
LoadEnrichedRaises ==
    /\ mpc \in {"start", "finished", "crashed"}
    /\ run < MaxRuns
    /\ LoadRaises(disk)
    /\ run' = run + 1
    /\ called' = {}
    /\ appended' = <<>>
    /\ log_at_load' = disk
    /\ summary' = NoSummary
    /\ mpc' = "load_failed"
    /\ UNCHANGED <<rlVars, thVars, disk, buffer, enriched_items, stats, queue, task, future>>

\* lines 451-453: the handler of process_all_minerals logs the exception and
\* goes on to the next mineral; there is none left and the process ends.
GiveUpMineral ==
    /\ mpc = "load_failed"
    /\ mpc' = "finished"
    /\ UNCHANGED <<rlVars, thVars, disk, buffer, run, enriched_items, stats, queue, task,
                   future, summary, called, appended, log_at_load>>

\* lines 304-308: nothing to process, the output file is not opened.
ProcessItemsNothing ==
    /\ mpc = "loaded"
    /\ items_to_process = <<>>
    /\ mpc' = "summary"
    /\ UNCHANGED <<rlVars, thVars, disk, buffer, run, enriched_items, stats, queue, task,
                   future, summary, called, appended, log_at_load>>

\* lines 310-321: the file is opened for appending and every pending item is
\* submitted to the pool.
ProcessItemsSubmit ==
    /\ mpc = "loaded"
    /\ items_to_process # <<>>
    /\ queue' = items_to_process
    /\ future' = [id \in ItemIds |->
                    IF \E i \in 1..Len(items_to_process): items_to_process[i] = id
                    THEN [state |-> "pending", result |-> NoAnalysis]
                    ELSE NoFuture]
    /\ buffer' = <<>>
    /\ mpc' = "loop"
    /\ UNCHANGED <<rlVars, thVars, disk, run, enriched_items, stats, task, summary,
                   called, appended, log_at_load>>

\* The idle threads of the pool are interchangeable; the one that takes an
\* item is the first idle one counting from the item's position.
Rank(w, id) == (w - id) % NumWorkers
PoolThread(id) ==
    CHOOSE w \in Workers:
        /\ pc[w] = "idle"
        /\ \A v \in Workers: pc[v] = "idle" => Rank(w, id) <= Rank(v, id)

\* A pool thread takes the next queued call of _process_single_item and runs
\* it up to the first API call: lines 283-290 build the prompt, line 202
\* estimates its cost and line 203 passes wait_if_needed. The with-block of
\* lines 66-90 is one critical section and is taken here as part of the
\* step: the lock is free before and after, the lists are pruned and the
\* request is recorded.
StartItem(w) ==
    /\ mpc \in {"loop", "interrupted"}
    /\ pc[w] = "idle"
    /\ queue # <<>>
    /\ w = PoolThread(Head(queue))
    /\ LockFree
    /\ \E len \in PromptLens:
         LET tokens == estimate_tokens(len) + ExtraTokens
         IN /\ ~RpmExhausted
            /\ ~TokensExhausted(tokens)
            /\ request_timestamps' = Append(PrunedRequests, now)
            /\ token_counts' = Append(PrunedTokens, [timestamp |-> now, tokens |-> tokens])
            /\ admissions' = Recorded(now)
            /\ estimated_tokens' = [estimated_tokens EXCEPT ![w] = tokens]
    /\ task' = [task EXCEPT ![w] = Head(queue)]
    /\ queue' = Tail(queue)
    /\ future' = [future EXCEPT ![Head(queue)].state = "running"]
    /\ pc' = [pc EXCEPT ![w] = "admitted"]
    /\ UNCHANGED <<rpm_limit, tpm_limit, lock, now, wake, disk, buffer, mpc, run,
                   enriched_items, stats, summary, called, appended,
                   log_at_load>>

\* What generate_content does on the attempts of one call of analyze_content.
ApiScripts ==
    {<<Candidate("STOP", ValidText), Candidate("STOP", ValidText), Candidate("STOP", ValidText)>>,
     <<NoCandidates(FALSE), Raises(<<"Quota", "exceeded">>), Candidate("STOP", ValidText)>>,
     <<Candidate("STOP", MissingKeyText), Candidate("STOP", MissingKeyText),
       Candidate("STOP", MissingKeyText)>>}

\* line 291: self.analyze_content(prompt), max_retries left at its default
ScriptOutcomes == {analyze_content(script, DefaultMaxRetries): script \in ApiScripts}

\* lines 294-296
ResultData(item_id, analysis) ==
    IF analysis.keys # {} THEN [id |-> item_id, analysis |-> analysis]
    ELSE [id |-> item_id, analysis |-> NoAnalysis]

\* lines 205-257 and 291-296: the admitted worker runs the retry loop and the
\* future completes with the result.
AnalyzeItem(w) ==
    /\ mpc \in {"loop", "interrupted"}
    /\ pc[w] = "admitted"
    /\ \E out \in ScriptOutcomes:
         /\ future' = [future EXCEPT ![task[w]] =
                          [state |-> "result", result |-> out.result]]
         /\ called' = IF out.calls > 0 THEN called \cup {task[w]} ELSE called
    /\ task' = [task EXCEPT ![w] = 0]
    /\ pc' = [pc EXCEPT ![w] = "idle"]
    /\ estimated_tokens' = [estimated_tokens EXCEPT ![w] = 0]
    /\ UNCHANGED <<rlVars, wake, disk, buffer, mpc, run, enriched_items, stats, queue,
                   summary, appended, log_at_load>>

\* An exception escapes _process_single_item (raised outside the try block of
\* analyze_content, such as by line 205): the future completes with it.
WorkerRaises(w) ==
    /\ mpc \in {"loop", "interrupted"}
    /\ pc[w] = "admitted"
    /\ future' = [future EXCEPT ![task[w]] = [state |-> "exception", result |-> NoAnalysis]]
    /\ task' = [task EXCEPT ![w] = 0]
    /\ pc' = [pc EXCEPT ![w] = "idle"]
    /\ estimated_tokens' = [estimated_tokens EXCEPT ![w] = 0]
    /\ UNCHANGED <<rlVars, wake, disk, buffer, mpc, run, enriched_items, stats, queue,
                   summary, called, appended, log_at_load>>

\* lines 330-332: a result that is not None is written, whatever its kind.
WritesResult(result_data) == result_data.analysis.keys # {}

\* line 335
CountsAsBlocked(analysis) ==
    "topic_classification" \in analysis.keys /\ analysis.topic_classification = "blocked"

\* line 332: f_out.write(...) with no flush after it. The text stays in the
\* buffer of the writer; when the buffer is full the writer first puts
\* records that were pending on disk, whole and in order.
WholeRecords(chunks) == IF Len(chunks) = 0 THEN TRUE ELSE chunks[Len(chunks)].half = 2

\* Faulty variant: the file is written from its start, as when it is
\* opened with mode 'w'.
WriteFromStart(text) ==
    \E k \in 0..Len(buffer):
        /\ WholeRecords(SubSeq(buffer, 1, k))
        /\ disk' = SubSeq(buffer, 1, k)
        /\ buffer' = SubSeq(buffer, k + 1, Len(buffer)) \o text

\* Faulty variant: the text is taken and never reaches the file.
WriteDropped(text) == disk' = disk /\ buffer' = buffer

\* Faulty variant: the text is written while the last pending chunk is still
\* on its way, as by a second thread that writes to the same file.
WriteUnserialized(text) ==
    /\ disk' = disk
    /\ buffer' = IF Len(buffer) = 0 THEN text
                 ELSE SubSeq(buffer, 1, Len(buffer) - 1) \o text \o <<buffer[Len(buffer)]>>

Write(text) ==
    \E k \in 0..Len(buffer):
        /\ WholeRecords(SubSeq(buffer, 1, k))
        /\ disk' = disk \o SubSeq(buffer, 1, k)
        /\ buffer' = SubSeq(buffer, k + 1, Len(buffer)) \o text

\* lines 323-343: as_completed yields a future that completed with a result.
HandleResult(id) ==
    /\ mpc = "loop"
    /\ future[id].state = "result"
    /\ LET result_data == ResultData(id, future[id].result)
           kind == IF CountsAsBlocked(result_data.analysis) THEN "blocked" ELSE "successful"
       IN IF WritesResult(result_data)
          THEN /\ Write(DumpLine(result_data))
               /\ appended' = Append(appended, <<id, kind>>)
               /\ stats' = increment(stats, kind)
          ELSE /\ stats' = increment(stats, "failed")
               /\ UNCHANGED <<disk, buffer, appended>>
    /\ future' = [future EXCEPT ![id] = [state |-> "handled", result |-> NoAnalysis]]
    /\ UNCHANGED <<rlVars, thVars, mpc, run, enriched_items, queue, task, summary,
                   called, log_at_load>>

\* Faulty variant: the exception is not caught in the loop; it leaves the
\* with-block, which closes the file, and ends the work on the collection.
ExceptionEscapes(id) ==
    /\ mpc = "loop"
    /\ future[id].state = "exception"
    /\ disk' = disk \o buffer
    /\ buffer' = <<>>
    /\ queue' = <<>>
    /\ future' = [other \in ItemIds |-> NoFuture]
    /\ mpc' = "finished"
    /\ UNCHANGED <<rlVars, thVars, run, enriched_items, stats, task, summary, called,
                   appended, log_at_load>>

\* lines 345-347: future.result() raises.
HandleException(id) ==
    /\ mpc = "loop"
    /\ future[id].state = "exception"
    /\ stats' = increment(stats, "failed")
    /\ future' = [future EXCEPT ![id] = [state |-> "handled", result |-> NoAnalysis]]
    /\ UNCHANGED <<rlVars, thVars, disk, buffer, mpc, run, enriched_items, queue, task,
                   summary, called, appended, log_at_load>>

\* The with-block of lines 315-316 ends: the file is closed, which writes
\* out what is pending, and the pool is shut down.
CloseLog ==
    /\ mpc = "loop"
    /\ \A id \in ItemIds: future[id].state \in {"none", "handled"}
    /\ disk' = disk \o buffer
    /\ buffer' = <<>>
    /\ future' = [id \in ItemIds |-> NoFuture]
    /\ mpc' = "summary"
    /\ UNCHANGED <<rlVars, thVars, run, enriched_items, stats, queue, task, summary,
                   called, appended, log_at_load>>

\* The operator interrupts the run: KeyboardInterrupt is raised in the main
\* thread inside the with-block of lines 315-347 and leaves it. The file is
\* closed first, which writes out what is pending; then the executor's exit
\* calls shutdown(wait=True), which cancels nothing: the pool threads go on
\* taking queued items while the main thread waits for them.
Interrupt ==
    /\ mpc = "loop"
    /\ disk' = disk \o buffer
    /\ buffer' = <<>>
    /\ mpc' = "interrupted"
    /\ UNCHANGED <<rlVars, thVars, run, enriched_items, stats, queue, task, future,
                   summary, called, appended, log_at_load>>

\* The pool has run dry and its threads are joined: the interrupt reaches
\* lines 448-450, the loop over the minerals is left and the process ends
\* with no summary written.
ShutdownDone ==
    /\ mpc = "interrupted"
    /\ queue = <<>>
    /\ \A w \in Workers: pc[w] = "idle"
    /\ future' = [id \in ItemIds |-> NoFuture]
    /\ mpc' = "finished"
    /\ UNCHANGED <<rlVars, thVars, disk, buffer, run, enriched_items, stats, queue, task,
                   summary, called, appended, log_at_load>>

\* lines 396-398 and 401-426
CreateSummary ==
    /\ mpc = "summary"
    /\ summary' = [written |-> TRUE,
                   total_enriched_in_file |->
                       Cardinality(DOMAIN enriched_items) + stats.successful,
                   processed_this_run |-> stats.total_processed,
                   successful |-> stats.successful, failed |-> stats.failed,
                   blocked |-> stats.blocked, skipped_this_run |-> stats.skipped,
                   success_rate |-> OneDecimal(success_rate(stats))]
    /\ mpc' = "finished"
    /\ UNCHANGED <<rlVars, thVars, disk, buffer, run, enriched_items, stats, queue, task,
                   future, called, appended, log_at_load>>

\* The process is killed: everything in memory is gone, what the buffered
\* writer had not yet written out included. A kill that comes while the
\* writer is putting its buffer on disk leaves a part of it there, cut
\* anywhere.
Crash ==
    /\ mpc \in {"loaded", "loop", "summary"}
    /\ mpc' = "crashed"
    /\ \E k \in 0..Len(buffer):
         disk' = disk \o SubSeq(buffer, 1, k)
    /\ buffer' = <<>>
    /\ enriched_items' = EmptyDict
    /\ stats' = NewStats
    /\ queue' = <<>>
    /\ task' = [w \in Workers |-> 0]
    /\ future' = [id \in ItemIds |-> NoFuture]
    /\ pc' = [w \in Workers |-> "idle"]
    /\ estimated_tokens' = [w \in Workers |-> 0]
    /\ request_timestamps' = <<>>
    /\ token_counts' = <<>>
    /\ admissions' = <<>>
    /\ lock' = 0
    /\ called' = {}
    /\ appended' = <<>>
    /\ log_at_load' = <<>>
    /\ UNCHANGED <<rpm_limit, tpm_limit, now, wake, run, summary>>

(***************************************************************************)
(* process_mineral run after run on one collection that has, beside the    *)
(* .jsonl log, a posts_enriched.json left by an earlier version.  The      *)
(* files hold lines that load_enriched_data gets through: records and      *)
(* lines that are not JSON.                                                *)
(***************************************************************************)
NoFile == [exists |-> FALSE, lines |-> <<>>]
FileOf(lines) == [exists |-> TRUE, lines |-> lines]
FileLines == {RecordLine(1, "a"), RecordLine(2, "a"), OtherLine("not_json")}
Files == {NoFile} \cup {FileOf(lines): lines \in UNION {[1..n -> FileLines]: n \in 0..MaxLines}}

\* lines 373-375: the .jsonl file if it exists, else the .json file
EnrichedPath ==
    IF enriched_posts_path_jsonl.exists THEN enriched_posts_path_jsonl
    ELSE enriched_posts_path_json

\* lines 262-263 and 265-279
LoadPath(file) == IF file.exists THEN LoadFile(file.lines, NoRecords).data ELSE NoRecords

\* line 332 for the written results, here in the order of their ids
RECURSIVE RecordsOf(_, _)
RecordsOf(ids, from) ==
    IF from > NumItems THEN <<>>
    ELSE (IF from \in ids THEN <<RecordLine(from, "a")>> ELSE <<>>) \o RecordsOf(ids, from + 1)

\* lines 373-393 for the posts: the file is chosen and loaded; lines 304-308
\* return when nothing is left to process; else line 316 opens the .jsonl
\* file for appending, which creates it, and lines 330-332 append a record
\* for every item whose future gave a result (an item whose future raised
\* gets none).
RunMineral ==
    /\ fb_runs < MaxRuns
    /\ LET enriched_posts == LoadPath(EnrichedPath)
           pending == ItemIds \ DOMAIN enriched_posts
       IN /\ done_now' = ItemIds \cap DOMAIN enriched_posts
          /\ done_before' = done_before \cup done_now
          /\ IF pending = {} THEN UNCHANGED enriched_posts_path_jsonl
             ELSE \E written \in SUBSET pending:
                    enriched_posts_path_jsonl' =
                        FileOf(enriched_posts_path_jsonl.lines \o RecordsOf(written, 1))
    /\ fb_runs' = fb_runs + 1
    /\ UNCHANGED enriched_posts_path_json

FallbackInit ==
    /\ enriched_posts_path_json \in Files
    /\ enriched_posts_path_jsonl \in Files
    /\ done_now = {}
    /\ done_before = {}
    /\ fb_runs = 0

FallbackIdle ==
    /\ enriched_posts_path_json = NoFile
    /\ enriched_posts_path_jsonl = NoFile
    /\ done_now = {}
    /\ done_before = {}
    /\ fb_runs = 0

(***************************************************************************)
(* relevence.py: analyze_mineral_folder for one mineral, run after run,    *)
(* and the operator's interrupt as main handles it.  The results are kept  *)
(* as the set of the post ids that have one.                               *)
(***************************************************************************)
posts_data == [i \in 1..NumPosts |-> i]

\* lines 197-203: the posts with no entry in the loaded results
RemainingPosts(results) == SelectSeq(posts_data, LAMBDA id: id \notin results)

\* lines 174-216: the results are loaded from relevance_analysis.json; when
\* no post is left the summary is made and the function returns.
StartAnalysis ==
    /\ rv_pc \in {"start", "interrupted"}
    /\ rv_runs < MaxRuns
    /\ rv_runs' = rv_runs + 1
    /\ analysis_results' = analysis_file
    /\ remaining_posts' = RemainingPosts(analysis_file)
    /\ current_count' = Cardinality(analysis_file)
    /\ rv_i' = 0
    /\ rv_pc' = IF RemainingPosts(analysis_file) = <<>> THEN "done" ELSE "loop"
    /\ UNCHANGED <<analysis_file, obtained>>

\* line 248: (current_count + i + 1) % 5 == 0
SavesAt(i) == (current_count + i + 1) % SaveEvery = 0

\* lines 218-262, one turn of the loop: the post is analyzed; with no
\* result line 245 goes on to the next post; with a result it is put in
\* the dict and, at every fifth position, the dict is saved.
AnalyzePost ==
    /\ rv_pc = "loop"
    /\ rv_i < Len(remaining_posts)
    /\ LET post_id == remaining_posts[rv_i + 1]
       IN \E result \in BOOLEAN:
            IF result
            THEN /\ analysis_results' = analysis_results \cup {post_id}
                 /\ obtained' = obtained \cup {post_id}
                 /\ analysis_file' = IF SavesAt(rv_i) THEN analysis_results \cup {post_id}
                                     ELSE analysis_file
            ELSE UNCHANGED <<analysis_results, obtained, analysis_file>>
    /\ rv_i' = rv_i + 1
    /\ UNCHANGED <<remaining_posts, current_count, rv_pc, rv_runs>>

\* lines 264-279: the loop has ended; the dict is saved.
FinalSave ==
    /\ rv_pc = "loop"
    /\ rv_i = Len(remaining_posts)
    /\ analysis_file' = analysis_results
    /\ rv_pc' = "done"
    /\ UNCHANGED <<analysis_results, remaining_posts, current_count, rv_i, rv_runs, obtained>>

\* The operator interrupts the loop (in the API call of line 227 or the
\* sleep of line 262): KeyboardInterrupt leaves analyze_mineral_folder,
\* lines 389-392 log a message and leave the loop over the minerals, and
\* the process ends; the dict is gone with it.
InterruptAnalysis ==
    /\ rv_pc = "loop"
    /\ rv_pc' = "interrupted"
    /\ analysis_results' = {}
    /\ remaining_posts' = <<>>
    /\ current_count' = 0
    /\ rv_i' = 0
    /\ UNCHANGED <<analysis_file, rv_runs, obtained>>

RelevanceInit ==
    /\ analysis_file = {}
    /\ analysis_results = {}
    /\ remaining_posts = <<>>
    /\ current_count = 0
    /\ rv_i = 0
    /\ rv_pc = "start"
    /\ rv_runs = 0
    /\ obtained = {}

RelevanceIdle == RelevanceInit

\* The output log before the first run: there is none, or it holds one
\* line that this program did not write.
StartLogs == {<<>>, <<ScalarLine>>}

PipelineInit(logs) ==
    /\ disk \in logs
    /\ buffer = <<>>
    /\ mpc = "start"
    /\ run = 0
    /\ enriched_items = EmptyDict
    /\ stats = NewStats
    /\ WorkersIdle
    /\ summary = NoSummary
    /\ called = {}
    /\ appended = <<>>
    /\ log_at_load = <<>>

PipelineIdle == PipelineInit({<<>>})

(***************************************************************************)
(* The rate limiter on its own: workers that call wait_if_needed again and *)
(* again with costs drawn from TokenCosts.                                 *)
(***************************************************************************)
Call(w) ==
    /\ pc[w] = "idle"
    /\ \E tok \in TokenCosts:
         estimated_tokens' = [estimated_tokens EXCEPT ![w] = tok]
    /\ pc' = [pc EXCEPT ![w] = "wait_lock"]
    /\ UNCHANGED <<rlVars, wake>>

Return(w) ==
    /\ pc[w] \in {"admitted", "raised"}
    /\ pc' = [pc EXCEPT ![w] = "idle"]
    /\ UNCHANGED <<rlVars, estimated_tokens, wake>>

ThreadsInit ==
    /\ pc = [w \in Workers |-> "idle"]
    /\ estimated_tokens = [w \in Workers |-> 0]
    /\ wake = [w \in Workers |-> 0]

RateLimiterIdle ==
    /\ RateLimiterInit(DefaultRpm, DefaultTpm)
    /\ now = 0
    /\ ThreadsInit

InitRL ==
    /\ LoaderIdle
    /\ BatchIdle
    /\ FallbackIdle
    /\ RelevanceIdle
    /\ \E rpm \in RpmConfigs, tpm \in TpmConfigs: RateLimiterInit(rpm, tpm)
    /\ now = 0
    /\ ThreadsInit
    /\ AnalyzeIdle
    /\ PipelineIdle

NextRL ==
    \/ \E w \in Workers: Call(w) /\ UNCHANGED <<acVars, plVars, ldVars, btVars, fbVars, rvVars>>
    \/ \E w \in Workers: Acquire(w) /\ UNCHANGED <<acVars, plVars, ldVars, btVars, fbVars, rvVars>>
    \/ \E w \in Workers: SleepRpm(w) /\ UNCHANGED <<acVars, plVars, ldVars, btVars, fbVars, rvVars>>
    \/ \E w \in Workers: SleepTpm(w) /\ UNCHANGED <<acVars, plVars, ldVars, btVars, fbVars, rvVars>>
    \/ \E w \in Workers:
         RaiseIndexError(w) /\ UNCHANGED <<acVars, plVars, ldVars, btVars, fbVars, rvVars>>
    \/ \E w \in Workers: Admit(w) /\ UNCHANGED <<acVars, plVars, ldVars, btVars, fbVars, rvVars>>
    \/ \E w \in Workers: Wake(w) /\ UNCHANGED <<acVars, plVars, ldVars, btVars, fbVars, rvVars>>
    \/ \E w \in Workers: Return(w) /\ UNCHANGED <<acVars, plVars, ldVars, btVars, fbVars, rvVars>>
    \/ Tick /\ UNCHANGED <<acVars, plVars, ldVars, btVars, fbVars, rvVars>>

SpecRL == InitRL /\ [][NextRL]_vars

Init ==
    /\ LoaderIdle
    /\ BatchIdle
    /\ FallbackIdle
    /\ RelevanceIdle
    /\ RateLimiterIdle
    /\ AnalyzeIdle
    /\ PipelineInit(StartLogs)

Next ==
    \/ LoadEnriched /\ UNCHANGED <<acVars, ldVars, btVars, fbVars, rvVars>>
    \/ LoadEnrichedRaises /\ UNCHANGED <<acVars, ldVars, btVars, fbVars, rvVars>>
    \/ GiveUpMineral /\ UNCHANGED <<acVars, ldVars, btVars, fbVars, rvVars>>
    \/ ProcessItemsNothing /\ UNCHANGED <<acVars, ldVars, btVars, fbVars, rvVars>>
    \/ ProcessItemsSubmit /\ UNCHANGED <<acVars, ldVars, btVars, fbVars, rvVars>>
    \/ \E w \in Workers: StartItem(w) /\ UNCHANGED <<acVars, ldVars, btVars, fbVars, rvVars>>
    \/ \E w \in Workers: AnalyzeItem(w) /\ UNCHANGED <<acVars, ldVars, btVars, fbVars, rvVars>>
    \/ \E w \in Workers: WorkerRaises(w) /\ UNCHANGED <<acVars, ldVars, btVars, fbVars, rvVars>>
    \/ \E id \in ItemIds: HandleResult(id) /\ UNCHANGED <<acVars, ldVars, btVars, fbVars, rvVars>>
    \/ \E id \in ItemIds:
         HandleException(id) /\ UNCHANGED <<acVars, ldVars, btVars, fbVars, rvVars>>
    \/ CloseLog /\ UNCHANGED <<acVars, ldVars, btVars, fbVars, rvVars>>
    \/ Interrupt /\ UNCHANGED <<acVars, ldVars, btVars, fbVars, rvVars>>
    \/ ShutdownDone /\ UNCHANGED <<acVars, ldVars, btVars, fbVars, rvVars>>
    \/ CreateSummary /\ UNCHANGED <<acVars, ldVars, btVars, fbVars, rvVars>>
    \/ Crash /\ UNCHANGED <<acVars, ldVars, btVars, fbVars, rvVars>>

Spec == Init /\ [][Next]_vars

\* The steps of a run that the program takes by itself once it has been
\* started: every disjunct of Next but the start of a process, the kill
\* and the operator's interrupt.
RunStep ==
    \/ GiveUpMineral
    \/ ProcessItemsNothing
    \/ ProcessItemsSubmit
    \/ \E w \in Workers: StartItem(w)
    \/ \E w \in Workers: AnalyzeItem(w)
    \/ \E w \in Workers: WorkerRaises(w)
    \/ \E id \in ItemIds: HandleResult(id)
    \/ \E id \in ItemIds: HandleException(id)
    \/ CloseLog
    \/ ShutdownDone
    \/ CreateSummary

\* The engine with a scheduler that lets a started run go on.
SpecLive == Spec /\ WF_vars(RunStep /\ UNCHANGED <<acVars, ldVars, btVars, fbVars, rvVars>>)

\* The engine left to itself: processes are started, one after the other,
\* and nobody kills or interrupts them. A process that has been started
\* goes on: the main thread and the pool threads are scheduled, and every
\* API call returns or raises.
NextRun ==
    \/ LoadEnriched /\ UNCHANGED <<acVars, ldVars, btVars, fbVars, rvVars>>
    \/ LoadEnrichedRaises /\ UNCHANGED <<acVars, ldVars, btVars, fbVars, rvVars>>
    \/ GiveUpMineral /\ UNCHANGED <<acVars, ldVars, btVars, fbVars, rvVars>>
    \/ ProcessItemsNothing /\ UNCHANGED <<acVars, ldVars, btVars, fbVars, rvVars>>
    \/ ProcessItemsSubmit /\ UNCHANGED <<acVars, ldVars, btVars, fbVars, rvVars>>
    \/ \E w \in Workers: StartItem(w) /\ UNCHANGED <<acVars, ldVars, btVars, fbVars, rvVars>>
    \/ \E w \in Workers: AnalyzeItem(w) /\ UNCHANGED <<acVars, ldVars, btVars, fbVars, rvVars>>
    \/ \E w \in Workers: WorkerRaises(w) /\ UNCHANGED <<acVars, ldVars, btVars, fbVars, rvVars>>
    \/ \E id \in ItemIds: HandleResult(id) /\ UNCHANGED <<acVars, ldVars, btVars, fbVars, rvVars>>
    \/ \E id \in ItemIds:
         HandleException(id) /\ UNCHANGED <<acVars, ldVars, btVars, fbVars, rvVars>>
    \/ CloseLog /\ UNCHANGED <<acVars, ldVars, btVars, fbVars, rvVars>>
    \/ CreateSummary /\ UNCHANGED <<acVars, ldVars, btVars, fbVars, rvVars>>

SpecRun ==
    Init /\ [][NextRun]_vars /\ WF_vars(NextRun /\ mpc \notin {"start", "finished"})

InitAC ==
    /\ LoaderIdle
    /\ BatchIdle
    /\ FallbackIdle
    /\ RelevanceIdle
    /\ \/ AnalyzeInit(0..MaxRetries)
       \/ AnalyzeInitRaising((MaxRetries + 1)..(MaxRetries + 2))
    /\ RateLimiterIdle
    /\ PipelineIdle

NextAC == AnalyzeCall /\ UNCHANGED <<thVars, plVars, ldVars, btVars, fbVars, rvVars>>

SpecAC == InitAC /\ [][NextAC]_vars

InitLD ==
    /\ LoaderInit
    /\ BatchIdle
    /\ FallbackIdle
    /\ RelevanceIdle
    /\ RateLimiterIdle
    /\ AnalyzeIdle
    /\ PipelineIdle

NextLD == LoadCall /\ UNCHANGED <<rlVars, thVars, acVars, plVars, btVars, fbVars, rvVars>>

SpecLD == InitLD /\ [][NextLD]_vars

InitBT ==
    /\ BatchInit
    /\ FallbackIdle
    /\ RelevanceIdle
    /\ LoaderIdle
    /\ RateLimiterIdle
    /\ AnalyzeIdle
    /\ PipelineIdle

NextBT ==
    \/ ProcessMineral /\ UNCHANGED <<rlVars, thVars, acVars, plVars, ldVars, fbVars, rvVars>>
    \/ FinishBatch /\ UNCHANGED <<rlVars, thVars, acVars, plVars, ldVars, fbVars, rvVars>>

SpecBT == InitBT /\ [][NextBT]_vars

InitFB ==
    /\ FallbackInit
    /\ RelevanceIdle
    /\ BatchIdle
    /\ LoaderIdle
    /\ RateLimiterIdle
    /\ AnalyzeIdle
    /\ PipelineIdle

NextFB == RunMineral /\ UNCHANGED <<rlVars, thVars, acVars, plVars, ldVars, btVars, rvVars>>

SpecFB == InitFB /\ [][NextFB]_vars

InitRV ==
    /\ RelevanceInit
    /\ FallbackIdle
    /\ BatchIdle
    /\ LoaderIdle
    /\ RateLimiterIdle
    /\ AnalyzeIdle
    /\ PipelineIdle

NextRV ==
    \/ StartAnalysis /\ UNCHANGED <<rlVars, thVars, acVars, plVars, ldVars, btVars, fbVars>>
    \/ AnalyzePost /\ UNCHANGED <<rlVars, thVars, acVars, plVars, ldVars, btVars, fbVars>>
    \/ FinalSave /\ UNCHANGED <<rlVars, thVars, acVars, plVars, ldVars, btVars, fbVars>>
    \/ InterruptAnalysis /\ UNCHANGED <<rlVars, thVars, acVars, plVars, ldVars, btVars, fbVars>>

SpecRV == InitRV /\ [][NextRV]_vars

(***************************************************************************)
(* Properties of the rate limiter (SpecRL).                                *)
(***************************************************************************)
\* The entries recorded with a timestamp in the trailing 60 seconds.
RequestsInWindow ==
    Cardinality({i \in 1..Len(request_timestamps): now - request_timestamps[i] < 600})
TokensInWindow ==
    SumTokens(SelectSeq(token_counts, LAMBDA tc: now - tc.timestamp < 600))
InCriticalSection(w) == pc[w] \in {"check", "sleeping"}

\* C3: at every instant the number of requests recorded in the trailing 60
\* seconds is at most the configured request limit times 0.9 (kept times
\* ten in rpm_limit), also when that product is not an integer.
C3_RequestsWithinMargin == RequestsInWindow * 10 <= rpm_limit

\* C12: when the limiter lets two requests into a window (the limit it
\* stores is above 1 and at most 2: the code compares a whole count with
\* it, so every such limit acts as 2), every request is recorded at least 60
\* seconds after the request recorded two places before it; so of three
\* calls made together on an empty window the third is admitted 60 seconds
\* or more after the first.
C12_ThirdWaitsAWindow ==
    (rpm_limit > 10 /\ rpm_limit <= 20) =>
        (Len(admissions) = 3 => admissions[3] - admissions[1] >= 600)

C12_Witness ==
    /\ rpm_limit = 18
    /\ Len(admissions) = 3
    /\ admissions[1] = 0
    /\ admissions[2] = 0
    /\ admissions[3] = 601
    /\ now = 601

\* C14: a worker that sleeps inside wait_if_needed keeps no other worker
\* out: whenever one worker sleeps and another, whose request fits the
\* request budget and the token budget, is waiting to enter, the lock is
\* free, so that the second worker is admitted before the sleep ends.
C14_SleepSuspendsOnlySleeper ==
    \A a, b \in Workers:
        (pc[a] = "sleeping" /\ pc[b] = "wait_lock" /\ HasHeadroom(b)) => LockFree

\* C31: no call of wait_if_needed ends with an exception, whatever the
\* estimated cost and the configured limits: a call that has ended has
\* recorded its request, also when the cost alone reaches the token limit
\* on an empty window.
C31_CallReturnsNormally == \A w \in Workers: pc[w] # "raised"

\* C4: admission is one critical section: at most one worker is between the
\* headroom check and the recording of its request, and it holds the lock.
C4_OneWorkerInAdmission ==
    /\ Cardinality({w \in Workers: InCriticalSection(w)}) <= 1
    /\ \A w \in Workers: InCriticalSection(w) => lock = w

C4_Witness ==
    \E w, v \in Workers:
        /\ pc[w] = "sleeping"
        /\ pc[v] = "wait_lock"
        /\ request_timestamps # <<>>

\* C5: at every instant the token estimates recorded in the trailing 60
\* seconds sum to less than the configured token limit times 0.9, and the
\* newest recorded request found request headroom: without it the window
\* holds fewer requests than the request limit times 0.9.
C5_TokensBelowMargin ==
    /\ TokensInWindow * 10 < tpm_limit
    /\ RequestsInWindow > 0 => (RequestsInWindow - 1) * 10 < rpm_limit

C5_Witness ==
    \E w \in Workers:
        /\ pc[w] = "sleeping"
        /\ RequestsInWindow * 10 < rpm_limit
        /\ TokensInWindow = 8
        /\ (TokensInWindow + estimated_tokens[w]) * 10 >= tpm_limit

(***************************************************************************)
(* Properties of analyze_content (SpecAC).  The classes of responses and   *)
(* the expected results are written out here independently of the          *)
(* operators that model the code.                                          *)
(***************************************************************************)
RateLimitResponses == {Raises(<<"429", "Too", "Many">>), Raises(<<"Quota", "exceeded">>)}
OtherErrorResponses == {Raises(<<"500", "Internal">>), Raises(<<"Rate", "exceeded">>)}
NoJsonResponses == {Candidate("STOP", <<Prose>>)}
ParseErrorResponses ==
    {Candidate("STOP", <<LB, Prose, RB>>), Candidate("STOP", BraceInProseText)}
MissingKeyResponses == {Candidate("STOP", MissingKeyText), Candidate("STOP", <<LB, RB>>)}
TransientResponses ==
    RateLimitResponses \cup OtherErrorResponses \cup {NoCandidates(FALSE)}
    \cup NoJsonResponses \cup ParseErrorResponses \cup MissingKeyResponses
ValidResponses ==
    {Candidate("STOP", ValidText), Candidate("MAX_TOKENS", FullObject("blocked"))}

\* The object embedded in a valid response.
EmbeddedObject(resp) ==
    [keys |-> {"sentiment", "keywords", "themes", "concerns_detected",
               "mining_stance", "topic_classification"},
     keywords |-> <<"lithium">>, themes |-> <<"supply">>,
     topic_classification |-> IF resp.finish_reason = "STOP" THEN "economic"
                              ELSE "blocked"]

\* The blocked placeholder with a given reason code.
Placeholder(reason) ==
    [keys |-> {"sentiment", "keywords", "themes", "concerns_detected",
               "mining_stance", "topic_classification"},
     keywords |-> <<"content_issue", reason>>, themes |-> <<"content_blocked">>,
     topic_classification |-> "blocked"]

AllTransient(n) == \A i \in 1..n: ac_responses[i] \in TransientResponses

\* C7: with retry budget N, for every k < N, if the first k attempts end in
\* a transient failure and attempt k+1 gets a valid response, analyze_content
\* returns the object embedded in that response, after k+1 calls, and not a
\* placeholder.
C7_ValidAfterTransients ==
    ac_out.returned =>
        \A k \in 0..(ac_max_retries - 1):
            (AllTransient(k) /\ ac_responses[k + 1] \in ValidResponses)
            => /\ ac_out.result = EmbeddedObject(ac_responses[k + 1])
               /\ ac_out.calls = k + 1

C7_Witness ==
    /\ ac_out.returned
    /\ ac_max_retries = 3
    /\ AllTransient(2)
    /\ ac_responses[1] # ac_responses[2]
    /\ ac_responses[3] = Candidate("STOP", ValidText)
    /\ ac_out.result.topic_classification = "economic"

\* C8 as stated: when all max_retries attempts end in a transient failure the
\* result is the placeholder with reason max_retries_exceeded.
C8_AlwaysMaxRetriesExceeded ==
    (ac_out.returned /\ AllTransient(ac_max_retries))
    => ac_out.result = Placeholder("max_retries_exceeded")

\* The reason code the code gives when the last attempt of the budget fails.
ExhaustReason(resp) ==
    IF resp \in RateLimitResponses THEN "max_retries_exceeded"
    ELSE IF resp \in OtherErrorResponses THEN "api_error"
    ELSE IF resp = NoCandidates(FALSE) THEN "no_candidates"
    ELSE IF resp \in NoJsonResponses THEN "no_json"
    ELSE IF resp \in ParseErrorResponses THEN "json_error"
    ELSE "invalid_structure"

\* C8 amended: when all max_retries attempts end in a transient failure the
\* result is a blocked placeholder after exactly max_retries calls; its
\* reason is max_retries_exceeded when the last attempt ended in a
\* rate-limit/quota exception (or the budget is 0), and otherwise the reason
\* code of the last attempt's own failure.
C8_ExhaustionReason ==
    (ac_out.returned /\ AllTransient(ac_max_retries))
    => /\ ac_out.calls = ac_max_retries
       /\ ac_out.result =
            Placeholder(IF ac_max_retries = 0 THEN "max_retries_exceeded"
                        ELSE ExhaustReason(ac_responses[ac_max_retries]))

C8_Witness ==
    /\ ac_out.returned
    /\ ac_max_retries = 3
    /\ AllTransient(3)
    /\ ac_responses[3] \in RateLimitResponses
    /\ ac_responses[1] \notin RateLimitResponses
    /\ ac_out.result = Placeholder("max_retries_exceeded")

\* C9: if every attempt's response parses as JSON but lacks a required key,
\* analyze_content uses the whole budget and returns the placeholder with
\* reason invalid_structure and topic classification "blocked"; and whatever
\* the responses, the returned analysis has every required key.
C9_MissingKeysBlocked ==
    ac_out.returned =>
        /\ (ac_max_retries >= 1
            /\ \A i \in 1..ac_max_retries: ac_responses[i] \in MissingKeyResponses)
           => /\ ac_out.result = Placeholder("invalid_structure")
              /\ ac_out.result.topic_classification = "blocked"
              /\ ac_out.calls = ac_max_retries
        /\ \A key \in {"sentiment", "keywords", "themes", "concerns_detected",
                       "mining_stance", "topic_classification"}:
              key \in ac_out.result.keys

C9_Witness ==
    /\ ac_out.returned
    /\ ac_max_retries = 3
    /\ \A i \in 1..3: ac_responses[i] \in MissingKeyResponses
    /\ ac_responses[1] # ac_responses[2]
    /\ ac_out.result.keywords = <<"content_issue", "invalid_structure">>

\* The attempts before attempt j were all retried: each ended in a transient
\* failure and was not the last of the budget.
RetriedBefore(j) == j <= ac_max_retries /\ AllTransient(j - 1)

\* C18: when an attempt's response has zero candidates and a block reason,
\* analyze_content returns the prompt_blocked placeholder at that attempt,
\* whatever its number: that call is the last one and no pause follows it.
C18_PromptBlockedImmediately ==
    ac_out.returned =>
        \A j \in 1..ac_max_retries:
            (RetriedBefore(j) /\ ac_responses[j] = NoCandidates(TRUE))
            => /\ ac_out.result = Placeholder("prompt_blocked")
               /\ ac_out.calls = j
               /\ Len(ac_out.pauses) = j - 1

C18_Witness ==
    /\ ac_out.returned
    /\ ac_max_retries = 3
    /\ ac_responses[1] \in NoJsonResponses
    /\ ac_responses[2] = NoCandidates(TRUE)
    /\ ac_responses[3] \in ValidResponses
    /\ ac_out.calls = 2
    /\ ac_out.pauses = <<5>>
    /\ ac_out.result.keywords = <<"content_issue", "prompt_blocked">>

\* The responses whose first candidate has a finish reason other than STOP
\* and MAX_TOKENS, and the reason code for each.
RefusedResponses == {Candidate("SAFETY", <<>>), Candidate("RECITATION", ValidText)}
RefusalReason(resp) ==
    IF resp.finish_reason = "SAFETY" THEN "safety_blocked_safety"
    ELSE "safety_blocked_recitation"

\* C19: when the first candidate of an attempt has a finish reason other
\* than STOP and MAX_TOKENS, analyze_content returns at that attempt the
\* placeholder whose reason code is safety_blocked_ followed by the finish
\* reason in lower case, whatever is left of the budget and whatever text
\* the candidate carries.
C19_RefusalNotRetried ==
    ac_out.returned =>
        \A j \in 1..ac_max_retries:
            (RetriedBefore(j) /\ ac_responses[j] \in RefusedResponses)
            => /\ ac_out.result = Placeholder(RefusalReason(ac_responses[j]))
               /\ ac_out.calls = j
               /\ Len(ac_out.pauses) = j - 1

C19_Witness ==
    /\ ac_out.returned
    /\ ac_max_retries = 3
    /\ ac_responses[1] = Candidate("RECITATION", ValidText)
    /\ ac_responses[2] \in ValidResponses
    /\ ac_out.calls = 1
    /\ ac_out.pauses = <<>>
    /\ ac_out.result.keywords = <<"content_issue", "safety_blocked_recitation">>

\* C20: with a budget of at least one attempt, when every attempt's response
\* has zero candidates and no block reason, analyze_content makes
\* max_retries calls, pauses 5 seconds after each but the last, and returns
\* the no_candidates placeholder.
C20_NoCandidatesExhausts ==
    (/\ ac_out.returned
     /\ ac_max_retries >= 1
     /\ \A i \in 1..ac_max_retries: ac_responses[i] = NoCandidates(FALSE))
    => /\ ac_out.result = Placeholder("no_candidates")
       /\ ac_out.calls = ac_max_retries
       /\ ac_out.pauses = [i \in 1..(ac_max_retries - 1) |-> 5]

C20_Witness ==
    /\ ac_out.returned
    /\ ac_max_retries = 3
    /\ \A i \in 1..3: ac_responses[i] = NoCandidates(FALSE)
    /\ ac_out.calls = 3
    /\ ac_out.pauses = <<5, 5>>
    /\ ac_out.result.keywords = <<"content_issue", "no_candidates">>

\* C21: with a budget of at least one attempt, if every attempt raises an
\* exception whose text has none of the markers 429, quota and rate limit,
\* analyze_content makes max_retries calls, pausing 10 * 2^a seconds after
\* attempt a (counted from 0) except the last, and returns the api_error
\* placeholder: a result is returned, the exception does not leave the call.
C21_GenericErrorsExhaust ==
    ac_out.returned =>
        ((ac_max_retries >= 1
          /\ \A i \in 1..ac_max_retries: ac_responses[i] \in OtherErrorResponses)
         => /\ ac_out.result = Placeholder("api_error")
            /\ ac_out.calls = ac_max_retries
            /\ ac_out.pauses = [i \in 1..(ac_max_retries - 1) |-> 10 * 2^(i - 1)])

C21_Witness ==
    /\ ac_out.returned
    /\ ac_max_retries = 3
    /\ ac_responses = <<Raises(<<"500", "Internal">>), Raises(<<"Rate", "exceeded">>),
                        Raises(<<"Rate", "exceeded">>)>>
    /\ ac_out.result.keywords = <<"content_issue", "api_error">>
    /\ ac_out.pauses = <<10, 20>>

\* The pause the code takes after attempt a (counted from 0) when the
\* attempt raised.
CappedBackoff(a) == IF 60 * 2^a < 300 THEN 60 * 2^a ELSE 300

\* C22: every pause taken after an exception has the stated length: after
\* attempt a (counted from 0), min(300, 60 * 2^a) seconds for a rate-limit
\* or quota exception and 10 * 2^a seconds for any other exception that is
\* followed by a retry. A rate-limit exception uses up an attempt like any
\* other: no more than max_retries calls are made, and exactly max_retries
\* when every attempt raises.
C22_BackoffLengths ==
    ac_out.returned =>
        /\ ac_out.calls <= ac_max_retries
        /\ \A j \in 1..Len(ac_out.pauses):
              /\ ac_responses[j] \in RateLimitResponses
                    => ac_out.pauses[j] = CappedBackoff(j - 1)
              /\ ac_responses[j] \in OtherErrorResponses
                    => ac_out.pauses[j] = 10 * 2^(j - 1)
        /\ (\A i \in 1..ac_max_retries: ac_responses[i].kind = "raise")
              => /\ ac_out.calls = ac_max_retries
                 /\ \A i \in 1..ac_max_retries:
                       ac_responses[i] \in RateLimitResponses => Len(ac_out.pauses) >= i

\* The cap is reached: of five attempts that all raise, the first, third
\* and fourth end in a rate-limit or quota exception.
C22_Witness ==
    /\ ac_out.returned
    /\ ac_max_retries = 5
    /\ ac_responses[4] = Raises(<<"Quota", "exceeded">>)
    /\ ac_responses[5] = Raises(<<"500", "Internal">>)
    /\ ac_out.pauses = <<60, 20, 240, 300>>
    /\ ac_out.calls = 5

\* Responses whose text is one well-formed object with every required key,
\* with prose before it or after it.
WrappedObjects == {Candidate("STOP", ValidText), Candidate("STOP", BraceInProseText)}

\* C23: when the text of a response is one well-formed JSON object with
\* every required key, with any prose around it, extraction followed by
\* parsing gives that object, and analyze_content returns it at that call.
C23_ExtractsEmbeddedObject ==
    ac_out.returned =>
        \A j \in 1..ac_max_retries:
            ac_responses[j] \in WrappedObjects =>
                LET json_text == extract_json_from_response(ac_responses[j].text)
                IN /\ JsonParses(json_text)
                   /\ json_loads(json_text) = EmbeddedObject(ac_responses[j])
                   /\ RetriedBefore(j) =>
                         /\ ac_out.result = EmbeddedObject(ac_responses[j])
                         /\ ac_out.calls = j

\* A blocked placeholder, whatever its reason code.
IsPlaceholder(result) ==
    result.topic_classification = "blocked" /\ result.themes = <<"content_blocked">>

\* C24: a result that analyze_content returns as parsed from a response,
\* and not as a placeholder, has every key that the schema in the prompt
\* demands.
C24_SchemaKeysChecked ==
    (ac_out.returned /\ ~IsPlaceholder(ac_out.result))
    => PromptSchemaKeys \subseteq ac_out.result.keys

\* The result was parsed from the response of the last call made.
ParsedFromResponse ==
    /\ ac_out.calls >= 1
    /\ ac_responses[ac_out.calls] \in ValidResponses
    /\ ac_out.result = EmbeddedObject(ac_responses[ac_out.calls])

\* C28: the result analyze_content returns, which is what gets recorded and
\* counted, has topic classification "blocked" exactly when it is a
\* placeholder made by create_blocked_analysis and not an object parsed
\* from a response.
C28_BlockedIffPlaceholder ==
    ac_out.returned =>
        (ac_out.result.topic_classification = "blocked" <=> ~ParsedFromResponse)

\* C37: whatever generate_content does on each attempt, analyze_content
\* makes at most max_retries calls of it and returns an analysis that is
\* not empty, an object parsed from a response or a blocked placeholder,
\* never None; so _process_single_item gives a result that is written.
C37_ReturnsWithinBudget ==
    ac_out.returned =>
        /\ ac_out.calls <= ac_max_retries
        /\ Len(ac_out.pauses) <= ac_out.calls
        /\ ac_out.result # NoAnalysis
        /\ IsPlaceholder(ac_out.result) \/ HasRequiredKeys(ac_out.result)
        /\ WritesResult(ResultData(1, ac_out.result))

C37_Witness ==
    /\ ac_out.returned
    /\ ac_max_retries = MaxRetries
    /\ ac_out.calls = MaxRetries
    /\ \A i \in 1..MaxRetries: ac_responses[i].kind = "raise"
    /\ ac_out.result = create_blocked_analysis("max_retries_exceeded")

\* The time of call k of generate_content, in seconds from the first call:
\* the pauses taken before it (the time the calls themselves take is left
\* out), and the calls made in the 60 seconds that end with the last call.
RECURSIVE CallTime(_)
CallTime(k) == IF k <= 1 THEN 0 ELSE CallTime(k - 1) + ac_out.pauses[k - 1]
CallsInLastWindow ==
    Cardinality({k \in 1..ac_out.calls: CallTime(ac_out.calls) - CallTime(k) < 60})

\* C30: the calls of generate_content made within 60 seconds are no more
\* than the requests the rate limiter has recorded for that window: each
\* call has an admission of its own, and it is the recorded requests that
\* the limiter keeps within the request limit.
C30_EveryCallAdmitted ==
    ac_out.returned => CallsInLastWindow <= Len(request_timestamps)

(***************************************************************************)
(* Properties of load_enriched_data (SpecLD).                              *)
(***************************************************************************)
\* The last record line of the log with a given id, 0 when there is none.
LastRecordAt(id) ==
    LET at == {i \in 1..Len(ld_lines): ld_lines[i].kind = "record" /\ ld_lines[i].id = id}
    IN IF at = {} THEN 0 ELSE MaxOf(at)

\* C25: whatever lines the log holds, load_enriched_data returns; what it
\* returns has an entry for exactly the ids that have a record line, each
\* with the content of the last record line of that id.
C25_LoadSkipsBadLines ==
    ld_out.done =>
        /\ ~ld_out.raised
        /\ DOMAIN ld_out.data = {id \in {1, 2}: LastRecordAt(id) > 0}
        /\ \A id \in DOMAIN ld_out.data: ld_out.data[id] = ld_lines[LastRecordAt(id)].tag

(***************************************************************************)
(* Properties of process_mineral run after run (SpecFB).                   *)
(***************************************************************************)
\* C34: the ids a run finds already enriched, and so leaves out of its
\* processing, are found already enriched by every later run as well, also
\* when the earlier run read posts_enriched.json and the later one finds
\* posts_enriched.jsonl.
C34_DoneOnlyGrows == done_before \subseteq done_now

(***************************************************************************)
(* Properties of the relevance analysis (SpecRV).                          *)
(***************************************************************************)
\* C40: when the operator interrupts the relevance analysis, every post a
\* result was obtained for has its entry in relevance_analysis.json, and
\* so no run analyzes a post that a result was obtained for before.
C40_InterruptKeepsResults ==
    /\ [](rv_pc = "interrupted" => obtained \subseteq analysis_file)
    /\ [][(rv_pc = "loop" /\ rv_i' = rv_i + 1)
             => remaining_posts[rv_i + 1] \notin obtained]_vars

(***************************************************************************)
(* Properties of process_all_minerals (SpecBT).                            *)
(***************************************************************************)
\* The minerals up to the first one whose processing the operator
\* interrupts, that one included; all of them when there is none.
UpToInterrupt ==
    LET at == {i \in 1..Len(minerals): minerals[i] = "interrupted"}
    IN IF at = {} THEN Len(minerals) ELSE MinOf(at)

\* C27: when process_all_minerals is past its loop, process_mineral has
\* been called for every mineral up to the first interrupted one, whatever
\* number of them raised an exception; without an interrupt, for all of them.
C27_ExceptionDoesNotStopBatch ==
    batch_pc = "done" => handled = SubSeq(minerals, 1, UpToInterrupt)

C27_Witness ==
    /\ batch_pc = "done"
    /\ minerals = <<"raises", "returns", "raises">>
    /\ handled = minerals

(***************************************************************************)
(* Properties of the engine (Spec).                                        *)
(***************************************************************************)
\* A record of the log is a line (it starts the log or follows a newline)
\* that holds the two halves of one result and nothing else.
IsRecordAt(log, i, id) ==
    /\ i + 1 <= Len(log)
    /\ IF i = 1 THEN TRUE ELSE log[i - 1].half = 2
    /\ log[i].half = 1 /\ log[i].id = id
    /\ log[i + 1].half = 2 /\ log[i + 1].id = id
    /\ log[i].analysis = log[i + 1].analysis
RecordCount(log, id) == Cardinality({i \in 1..Len(log): IsRecordAt(log, i, id)})
RecordIds(log) == {id \in ItemIds: RecordCount(log, id) > 0}
Unterminated(log) == IF Len(log) = 0 THEN FALSE ELSE log[Len(log)].half = 1
AppendedIds == {appended[i][1]: i \in 1..Len(appended)}
BlockedIds == {id \in ItemIds: \E i \in 1..Len(appended): appended[i] = <<id, "blocked">>}

\* C1: for every id that has a record in the log a run loaded, that run
\* takes no task, issues no API call and appends no record for the id.
C1_IdempotentResume ==
    \A id \in RecordIds(log_at_load):
        /\ id \notin called
        /\ id \notin AppendedIds
        /\ \A w \in Workers: task[w] # id
        /\ future[id].state = "none"

C1_Witness ==
    /\ mpc = "finished"
    /\ run = 2
    /\ RecordIds(log_at_load) = {2}
    /\ called = {1}
    /\ AppendedIds = {1}

\* C11: in a run that found a record of every input item in the log,
\* _process_items returns before the output file is opened: the log on disk
\* stays as it was loaded, nothing is pending for it, no API call is made
\* and admitted by the limiter, and the counters keep the values they had
\* after add_skipped.
C11_NothingToProcess ==
    (mpc \in {"loaded", "loop", "summary", "finished"} /\ RecordIds(log_at_load) = ItemIds)
    => /\ mpc # "loop"
       /\ disk = log_at_load
       /\ buffer = <<>>
       /\ called = {}
       /\ appended = <<>>
       /\ request_timestamps = <<>>
       /\ \A id \in ItemIds: future[id].state = "none"
       /\ stats = [total_processed |-> 0, successful |-> 0, failed |-> 0,
                   blocked |-> 0, skipped |-> NumItems]

C11_Witness ==
    /\ mpc = "finished"
    /\ run = 2
    /\ RecordIds(log_at_load) = ItemIds
    /\ summary.written
    /\ summary.skipped_this_run = NumItems
    /\ summary.processed_this_run = 0

C6_KillLosesOnlyInFlight ==
    [][mpc' = "crashed" =>
         (RecordIds(log_at_load) \cup AppendedIds) \subseteq DOMAIN load_enriched_data(disk')]_vars

\* C10: when a run ends, by a kill or by closing the log, every id whose
\* blocked placeholder the run appended is in what the next run loads, so
\* that the next run leaves it out of items_to_process.
C10_BlockedNeverRetried ==
    [][(mpc = "loop" /\ mpc' \in {"crashed", "summary"}) =>
         BlockedIds \subseteq DOMAIN load_enriched_data(disk')]_vars

\* What the run has written to the file so far, flushed or still pending:
\* the log and the buffer, past what the log held when the run loaded it.
RunText(log, pending, loaded) ==
    SubSeq(log \o pending, Len(loaded) + 1, Len(log) + Len(pending))
WrittenByRun == RunText(disk, buffer, log_at_load)

\* C13: the text a run appends to the output log is made of whole records
\* only, one for each result the run handled and in the order in which it
\* handled them: each record's two halves are next to each other and belong
\* to the same result, so the lines of two results are never interleaved,
\* although the analyses themselves run in parallel pool threads. What the
\* log held when the run loaded it is left as it was.
C13_WholeRecordsInOrder ==
    mpc \in {"loaded", "loop", "interrupted", "summary", "finished"} =>
        /\ Len(disk) + Len(buffer) = Len(log_at_load) + 2 * Len(appended)
        /\ SubSeq(disk \o buffer, 1, Len(log_at_load)) = log_at_load
        /\ \A i \in 1..Len(appended):
              /\ WrittenByRun[2 * i - 1].half = 1
              /\ WrittenByRun[2 * i].half = 2
              /\ WrittenByRun[2 * i - 1].id = appended[i][1]
              /\ WrittenByRun[2 * i].id = appended[i][1]
              /\ WrittenByRun[2 * i - 1].analysis = WrittenByRun[2 * i].analysis

\* A result was written, and is still pending in the writer, while a pool
\* thread is at work on another item.
C13_Witness ==
    /\ mpc = "loop"
    /\ Len(appended) = 1
    /\ buffer # <<>>
    /\ \E w \in Workers: pc[w] = "admitted" /\ task[w] # appended[1][1]

\* C15: in a run that is neither killed nor interrupted, when the main loop
\* comes to the future of an item whose worker raised an exception,
\* the item is counted once as failed, nothing is written for it, and the
\* loop goes on: the queue, the pool threads and the futures of the other
\* items are left as they were. A future that completed with an analysis
\* is written and counted whatever happened to the other items, and the
\* log is closed only when every item of items_to_process has been counted.
C15_ExceptionIsolated ==
    [][/\ \A id \in ItemIds:
            (/\ mpc = "loop" /\ mpc' # "crashed"
             /\ future[id].state = "exception" /\ future'[id] # future[id]) =>
                /\ future'[id].state = "handled"
                /\ stats' = [stats EXCEPT !.failed = @ + 1, !.total_processed = @ + 1]
                /\ disk' = disk /\ buffer' = buffer /\ appended' = appended
                /\ mpc' = "loop"
                /\ queue' = queue /\ pc' = pc /\ task' = task
                /\ \A other \in ItemIds \ {id}: future'[other] = future[other]
       /\ \A id \in ItemIds:
            (future[id].state = "result" /\ future'[id].state = "handled") =>
                /\ Len(appended') = Len(appended) + 1
                /\ appended'[Len(appended')][1] = id
                /\ disk' \o buffer' = (disk \o buffer) \o
                                           DumpLine(ResultData(id, future[id].result))
                /\ stats'.total_processed = stats.total_processed + 1
                /\ stats'.failed = stats.failed
       /\ (mpc = "loop" /\ mpc' = "summary") =>
            /\ stats.total_processed = Len(items_to_process)
            /\ stats.failed + Len(appended) = Len(items_to_process)
      ]_vars

\* One item failed with an exception and the other one was still recorded.
C15_Witness ==
    /\ mpc = "summary"
    /\ stats.failed = 1
    /\ Len(appended) = 1
    /\ RecordCount(disk, appended[1][1]) = 1

\* Every chunk of the log is one of the two halves of a record.
OnlyRecords(log) ==
    \A i \in 1..Len(log):
        \E id \in ItemIds: IsRecordAt(log, i, id) \/ (i > 1 /\ IsRecordAt(log, i - 1, id))

\* C16: when the operator interrupts a run, what the run has added to the
\* log is whole newline-terminated records and nothing else, and the next
\* load finds the record of every item that had one when the run loaded the
\* log or whose result the run wrote before the interrupt.
C16_InterruptKeepsRecords ==
    [][(mpc = "loop" /\ mpc' = "interrupted") =>
         /\ buffer' = <<>>
         /\ OnlyRecords(RunText(disk', buffer', log_at_load))
         /\ (RecordIds(log_at_load) \cup AppendedIds)
                \subseteq DOMAIN load_enriched_data(disk')]_vars

\* C26: every run that has loaded its source data and is neither killed nor
\* interrupted comes to write the summary.
C26_SummaryEventually ==
    (mpc \in {"loaded", "load_failed"})
        ~> (summary.written \/ mpc \in {"crashed", "interrupted"})

\* C32: when every API call returns or raises and the run is neither killed
\* nor interrupted, _process_items comes to its end, and whenever it has
\* ended every pending item has been handled once: total_processed is the
\* number of input items whose id was not in the loaded dict.
C32_EachPendingItemHandledOnce ==
    /\ [](mpc = "summary" => stats.total_processed = Len(items_to_process))
    /\ (mpc = "loaded") ~> (mpc = "summary")

C32_Witness ==
    /\ mpc = "summary"
    /\ Len(items_to_process) = NumItems
    /\ stats.total_processed = NumItems
    /\ stats.failed = 1
    /\ stats.successful = 1

\* C33: in every state of a run that has its counters, total_processed is
\* successful + failed + blocked, and the records the run has appended
\* to the log (written out or still pending in the writer) are as many as
\* successful + blocked: one whole record for each item counted as
\* successful or blocked, the blocked ones for the items counted as
\* blocked, and none for an item counted as failed.
C33_CountersMatchRecords ==
    (mpc \in {"loaded", "loop", "interrupted", "summary"}) =>
        /\ stats.total_processed = stats.successful + stats.failed + stats.blocked
        /\ Len(appended) = stats.successful + stats.blocked
        /\ Cardinality(BlockedIds) = stats.blocked
        /\ Len(WrittenByRun) = 2 * Len(appended)
        /\ \A i \in 1..Len(appended):
              IsRecordAt(WrittenByRun, 2 * i - 1, appended[i][1])

C33_Witness ==
    /\ mpc = "summary"
    /\ stats.failed = 1
    /\ stats.blocked = 1
    /\ Len(appended) = 1
    /\ RecordCount(disk, appended[1][1]) = 1

\* C35: the total_enriched_in_file of the summary is the number of ids that
\* have a record in the output log when the run ends, whether the run wrote
\* answers, blocked placeholders or both.
C35_TotalIsRecordsInLog ==
    summary.written => summary.total_enriched_in_file = Cardinality(RecordIds(disk))

\* C36: in the summary of a complete run, the skipped counter is the number
\* of input items left out of the processing because their id was in the
\* loaded dict, so that skipped and total_processed add up to the number
\* of input items.
C36_SkippedPlusProcessed ==
    summary.written =>
        /\ summary.skipped_this_run = Len(all_items) - Len(items_to_process)
        /\ summary.skipped_this_run + summary.processed_this_run = Len(all_items)

C36_Witness ==
    /\ summary.written
    /\ summary.skipped_this_run = 1
    /\ summary.processed_this_run = 1

\* C38: once _process_items has ended and the file is closed, loading the
\* log gives, for every result the run appended, an entry under the
\* result's id that is equal to the result: its id and its analysis.
C38_AppendedThenLoaded ==
    (mpc \in {"summary", "finished"}) =>
        \A i \in 1..Len(appended):
            LET id == appended[i][1]
                loaded == load_enriched_data(disk)
            IN /\ id \in DOMAIN loaded
               /\ loaded[id] = [id |-> id, analysis |-> WrittenByRun[2 * i - 1].analysis]

\* One text is the beginning of another.
IsPrefix(old, new) == Len(old) <= Len(new) /\ SubSeq(new, 1, Len(old)) = old

\* C39: the output log is only ever appended to. No step of the program
\* cuts or rewrites what the log holds, and at every point of a run and
\* after it the log begins with what it held when the run loaded it.
C39_AppendOnly ==
    /\ [][IsPrefix(disk, disk')]_vars
    /\ [](mpc \in {"loaded", "load_failed", "loop", "interrupted", "summary", "finished"}
             => IsPrefix(log_at_load, disk))

C39_Witness ==
    /\ mpc = "summary"
    /\ run = 2
    /\ Len(log_at_load) > 0
    /\ Len(appended) = 1
    /\ Len(disk) > Len(log_at_load)

\* The items the run has counted as successful, failed or blocked.
Attempted == stats.successful + stats.failed + stats.blocked

\* C29 as stated: the success rate is successful divided by the number of
\* items counted as successful, failed or blocked, and 0 when there is none.
C29_RateIsRatio ==
    LET rate == success_rate(stats)
    IN /\ rate.den # 0
       /\ IF Attempted = 0 THEN rate.num = 0
          ELSE rate.num * Attempted = stats.successful * rate.den

\* C29 amended: the success rate is a percentage, 100 times successful
\* divided by the number of items counted as successful, failed or blocked,
\* and 0 when there is none; the divisor is never 0. The summary shows it
\* with one decimal.
C29_RateIsPercentage ==
    LET rate == success_rate(stats)
    IN /\ rate.den # 0
       /\ IF Attempted = 0 THEN rate.num = 0
          ELSE rate.num * Attempted = 100 * stats.successful * rate.den
       /\ summary.written =>
            /\ Attempted = 0 => summary.success_rate = 0
            /\ Attempted > 0 =>
                 /\ 2 * Attempted * summary.success_rate <= 2000 * stats.successful + Attempted
                 /\ 2 * Attempted * summary.success_rate > 2000 * stats.successful - Attempted

\* One item of two was successful and the other one blocked: 50.0%.
C29_Witness ==
    /\ summary.written
    /\ stats.successful = 1
    /\ stats.blocked = 1
    /\ stats.failed = 0
    /\ summary.success_rate = 500

\* C17: once the operator has interrupted the run, an item that is still
\* queued stays queued: no pool thread takes it, so no API call is admitted
\* or made for it.
C17_QueuedNeverStarted ==
    [][mpc = "interrupted" =>
         \A id \in ItemIds: future[id].state = "pending" => future'[id].state = "pending"]_vars

====
